---- MODULE Spec2Model ----
(***************************************************************************)
(* A model of repren (src/repren/repren.py): the simultaneous multi-pattern *)
(* replacement engine (multi_replace and its helpers) and the file          *)
(* transformation, tree walking and backup machinery built on it.           *)
(*                                                                          *)
(* Byte strings and paths are sequences of symbols.  A match is a record    *)
(* [start, end, rule] with Python's 0-based half-open offsets; rule is the  *)
(* index of the (regex, replacement) pair that produced it.                 *)
(***************************************************************************)
EXTENDS Integers, Sequences, FiniteSets, TLC

\* ------------------------------------------------------------------------
\* Bounds of the model
\* ------------------------------------------------------------------------

\* longest input byte string given to multi_replace
MaxLen == 3

\* largest number of rules in a rule set
MaxRules == 3

\* largest number of files in the tree before a run
MaxFiles == 2

\* largest number of root paths given to a run
MaxRoots == 2

\* largest number of lines of a pattern text
MaxLines == 2

\* ------------------------------------------------------------------------
\* Byte strings, regular expressions and replacement templates
\* ------------------------------------------------------------------------

\* the bytes inputs are made of
Bytes == {"a", "b"}

\* replacement template escapes: \g<0> (the whole match) and \1 (group 1)
G0 == "\\g<0>"
G1 == "\\1"

\* Python slice s[i:j] for 0 <= i, j <= len(s)
Slice(s, i, j) == IF i >= j THEN <<>> ELSE SubSeq(s, i + 1, j)

\* a literal regex (a word) and the regex c* for a byte c
Lit(w) == [kind |-> "lit", w |-> w]
Star(c) == [kind |-> "star", w |-> <<c>>]

\* number of capture groups of a regex of the model
NumGroups(regex) == 0

\* regex.finditer for a literal word: leftmost matches, scanning on after
\* each match's end (the empty word matches at every offset)
RECURSIVE LitIter(_, _, _)
LitIter(w, s, p) ==
    IF p + Len(w) > Len(s) THEN <<>>
    ELSE IF Slice(s, p, p + Len(w)) = w
         THEN <<[start |-> p, end |-> p + Len(w)]>>
              \o LitIter(w, s, p + (IF Len(w) = 0 THEN 1 ELSE Len(w)))
         ELSE LitIter(w, s, p + 1)

\* length of the run of byte c in s from offset p
RECURSIVE RunLen(_, _, _)
RunLen(c, s, p) ==
    IF p < Len(s) /\ s[p + 1] = c THEN 1 + RunLen(c, s, p + 1) ELSE 0

\* regex.finditer for c*: every maximal run of c, and an empty match at every
\* offset (the end of input included) where no run starts
RECURSIVE StarIter(_, _, _)
StarIter(c, s, p) ==
    IF p > Len(s) THEN <<>>
    ELSE LET k == RunLen(c, s, p) IN
         IF k > 0
         THEN <<[start |-> p, end |-> p + k]>> \o StarIter(c, s, p + k)
         ELSE <<[start |-> p, end |-> p]>> \o StarIter(c, s, p + 1)

\* a matcher that takes a literal pattern for matched at its first byte
FindIterFirstByte(regex, s) ==
    IF regex.kind = "lit"
    THEN LitIter(IF Len(regex.w) > 1 THEN <<regex.w[1]>> ELSE regex.w, s, 0)
    ELSE StarIter(regex.w[1], s, 0)

\* regex.finditer(input_bytes): the matches of one rule, left to right
finditer(regex, s) ==
    IF regex.kind = "lit" THEN LitIter(regex.w, s, 0) ELSE StarIter(regex.w[1], s, 0)

\* match.expand(replacement) raises re.error on a reference to a missing group
ExpandFails(regex, replacement) ==
    \E i \in 1..Len(replacement) : replacement[i] = G1 /\ NumGroups(regex) < 1

\* match.expand(replacement): the template with \g<0> replaced by the match
RECURSIVE expand(_, _, _)
expand(s, m, replacement) ==
    IF replacement = <<>> THEN <<>>
    ELSE (IF Head(replacement) = G0 THEN Slice(s, m.start, m.end)
          ELSE <<Head(replacement)>>) \o expand(s, m, Tail(replacement))

\* ------------------------------------------------------------------------
\* String matching
\* ------------------------------------------------------------------------

_overlap(match1, match2) ==
    match1.start < match2.end /\ match2.start < match1.end

\* bisect.bisect_left(a, x) with lo = 0, hi = len(a)
RECURSIVE bisect_from(_, _, _, _)
bisect_from(a, x, lo, hi) ==
    IF lo < hi
    THEN LET mid == (lo + hi) \div 2 IN
         IF a[mid + 1] < x THEN bisect_from(a, x, mid + 1, hi)
         ELSE bisect_from(a, x, lo, mid)
    ELSE lo

bisect_left(a, x) == bisect_from(a, x, 0, Len(a))

\* list.insert(index, x)
Insert(a, index, x) == SubSeq(a, 1, index) \o <<x>> \o SubSeq(a, index + 1, Len(a))

\* the starts list _sort_drop_overlaps keeps in step with non_overlaps
StartsOf(sel) == [i \in 1..Len(sel) |-> sel[i].start]

\* a resolver that looks at the left neighbour only
DropsOnLeftOnly(sel, match) ==
    LET index == bisect_left(StartsOf(sel), match.start) IN
    index > 0 /\ _overlap(sel[index], match)

\* does the loop body of _sort_drop_overlaps skip the match
DropsMatch(sel, match) ==
    LET index == bisect_left(StartsOf(sel), match.start) IN
    \/ index > 0 /\ _overlap(sel[index], match)
    \/ index < Len(sel) /\ _overlap(sel[index + 1], match)

\* one iteration of the loop of _sort_drop_overlaps
SortDropStep(sel, match) ==
    IF DropsMatch(sel, match) THEN sel
    ELSE Insert(sel, bisect_left(StartsOf(sel), match.start), match)

RECURSIVE SortDropFrom(_, _, _)
SortDropFrom(sel, ms, k) ==
    IF k > Len(ms) THEN sel ELSE SortDropFrom(SortDropStep(sel, ms[k]), ms, k + 1)

_sort_drop_overlaps(ms) == SortDropFrom(<<>>, ms, 1)

\* _apply_replacements from the k-th selected match on, pos being the loop's pos
RECURSIVE ApplyFrom(_, _, _, _, _)
ApplyFrom(s, rules, sel, k, pos) ==
    IF k > Len(sel) THEN Slice(s, pos, Len(s))
    ELSE Slice(s, pos, sel[k].start)
         \o expand(s, sel[k], rules[sel[k].rule].rep)
         \o ApplyFrom(s, rules, sel, k + 1, sel[k].end)

_apply_replacements(s, rules, sel) == ApplyFrom(s, rules, sel, 1, 0)

\* the matches of one rule, tagged with the rule's index
TagMatches(ms, k) == [i \in 1..Len(ms) |-> [start |-> ms[i].start, end |-> ms[i].end, rule |-> k]]

\* a collector that lists the matches of later rules first
RECURSIVE CollectLaterFirst(_, _, _)
CollectLaterFirst(s, rules, k) ==
    IF k > Len(rules) THEN <<>>
    ELSE CollectLaterFirst(s, rules, k + 1) \o TagMatches(finditer(rules[k].pat, s), k)

\* the collector loop of multi_replace, from rule k on
RECURSIVE CollectFrom(_, _, _)
CollectFrom(s, rules, k) ==
    IF k > Len(rules) THEN <<>>
    ELSE TagMatches(finditer(rules[k].pat, s), k) \o CollectFrom(s, rules, k + 1)

CollectMatches(s, rules) == CollectFrom(s, rules, 1)

\* does _apply_replacements raise on this selection
ApplyFails(rules, sel) ==
    \E k \in 1..Len(sel) : ExpandFails(rules[sel[k].rule].pat, rules[sel[k].rule].rep)

\* multi_replace: the result bytes and the counts, or err when expand raises
multi_replace(s, rules) ==
    LET ms == CollectMatches(s, rules)
        sel == _sort_drop_overlaps(ms)
    IN IF ApplyFails(rules, sel)
       THEN [err |-> TRUE, out |-> <<>>, found |-> Len(ms), valid |-> Len(sel)]
       ELSE [err |-> FALSE, out |-> _apply_replacements(s, rules, sel),
             found |-> Len(ms), valid |-> Len(sel)]

\* ------------------------------------------------------------------------
\* Case handling and the pattern loader
\* ------------------------------------------------------------------------

\* Pattern text is a list of lines, each a sequence of characters.

TAB == "\t"

\* the characters of pattern text, in code point order
CharOrder == <<"\t", " ", "#", "(", "A", "B", "_", "a", "b">>

CharRank(c) == CHOOSE i \in 1..Len(CharOrder) : CharOrder[i] = c

\* str.isupper, str.islower, str.upper and str.lower on one character
IsUpper(c) == c \in {"A", "B"}
IsLower(c) == c \in {"a", "b"}

UpperChar(c) == IF c = "a" THEN "A" ELSE IF c = "b" THEN "B" ELSE c
LowerChar(c) == IF c = "A" THEN "a" ELSE IF c = "B" THEN "b" ELSE c

upper(word) == [i \in 1..Len(word) |-> UpperChar(word[i])]
lower(word) == [i \in 1..Len(word) |-> LowerChar(word[i])]

\* the characters \w matches, and whitespace
IsWordChar(c) == IsUpper(c) \/ IsLower(c) \/ c = "_"
IsSpace(c) == c \in {" ", "\t"}

\* str.split(sep) for a one-character separator: the list of fields
RECURSIVE SplitOn(_, _)
SplitOn(s, sep) ==
    IF \A i \in 1..Len(s) : s[i] # sep THEN <<s>>
    ELSE LET k == CHOOSE i \in 1..Len(s) :
                      s[i] = sep /\ \A j \in 1..(i - 1) : s[j] # sep
         IN <<SubSeq(s, 1, k - 1)>> \o SplitOn(SubSeq(s, k + 1, Len(s)), sep)

\* str.join
RECURSIVE Join(_, _)
Join(words, sep) ==
    IF words = <<>> THEN <<>>
    ELSE IF Len(words) = 1 THEN words[1]
    ELSE words[1] \o sep \o Join(Tail(words), sep)

\* str.strip
RECURSIVE strip(_)
strip(s) ==
    IF s = <<>> THEN <<>>
    ELSE IF IsSpace(s[1]) THEN strip(Tail(s))
    ELSE IF IsSpace(s[Len(s)]) THEN strip(SubSeq(s, 1, Len(s) - 1))
    ELSE s

\* a scan that starts a new word only after a lowercase character
RECURSIVE CamelWordsAfterLower(_, _, _, _)
CamelWordsAfterLower(name, i, words, current_word) ==
    IF i >= Len(name)
    THEN IF current_word # <<>> THEN Append(words, current_word) ELSE words
    ELSE LET char == name[i + 1] IN
         IF i > 0 /\ IsUpper(char) /\ IsLower(name[i])
         THEN CamelWordsAfterLower(name, i + 1, Append(words, current_word), <<char>>)
         ELSE CamelWordsAfterLower(name, i + 1, words, Append(current_word, char))

\* the loop of _split_name over a name without underscores, from index i
\* (0-based) on, with the words and the current word built so far
RECURSIVE CamelWords(_, _, _, _)
CamelWords(name, i, words, current_word) ==
    IF i >= Len(name)
    THEN IF current_word # <<>> THEN Append(words, current_word) ELSE words
    ELSE LET char == name[i + 1] IN
         IF /\ i > 0
            /\ IsUpper(char)
            /\ (IsLower(name[i]) \/ (i + 1 < Len(name) /\ IsLower(name[i + 2])))
         THEN CamelWords(name, i + 1, Append(words, current_word), <<char>>)
         ELSE CamelWords(name, i + 1, words, Append(current_word, char))

_split_name(name) ==
    IF \E i \in 1..Len(name) : name[i] = "_"
    THEN [sep |-> <<"_">>, words |-> SplitOn(name, "_")]
    ELSE [sep |-> <<>>, words |-> CamelWords(name, 0, <<>>, <<>>)]

_capitalize(word) ==
    IF word = <<>> THEN <<>> ELSE <<UpperChar(word[1])>> \o lower(Tail(word))

\* each word of a list capitalized, lowered and uppered
CapitalizeAll(words) == [i \in 1..Len(words) |-> _capitalize(words[i])]
LowerAll(words) == [i \in 1..Len(words) |-> lower(words[i])]
UpperAll(words) == [i \in 1..Len(words) |-> upper(words[i])]

to_lower_camel(name) ==
    LET words == _split_name(name).words IN
    lower(words[1]) \o Join(CapitalizeAll(Tail(words)), <<>>)

to_upper_camel(name) == Join(CapitalizeAll(_split_name(name).words), <<>>)

to_lower_underscore(name) == Join(LowerAll(_split_name(name).words), <<"_">>)

to_upper_underscore(name) == Join(UpperAll(_split_name(name).words), <<"_">>)

\* the four transforms, in the order all_case_variants lists them
Transforms == <<"to_lower_camel", "to_upper_camel", "to_lower_underscore", "to_upper_underscore">>

ApplyTransform(transform, name) ==
    IF transform = "to_lower_camel" THEN to_lower_camel(name)
    ELSE IF transform = "to_upper_camel" THEN to_upper_camel(name)
    ELSE IF transform = "to_lower_underscore" THEN to_lower_underscore(name)
    ELSE to_upper_underscore(name)

\* the length of the run of word characters expr starts with
RECURSIVE WordRunLen(_)
WordRunLen(expr) ==
    IF expr # <<>> /\ IsWordChar(expr[1]) THEN 1 + WordRunLen(Tail(expr)) ELSE 0

\* _name_pat.sub: the transform applied to every run of word characters
RECURSIVE _transform_expr(_, _)
_transform_expr(expr, transform) ==
    IF expr = <<>> THEN <<>>
    ELSE LET n == WordRunLen(expr) IN
         IF n = 0 THEN <<expr[1]>> \o _transform_expr(Tail(expr), transform)
         ELSE ApplyTransform(transform, SubSeq(expr, 1, n))
              \o _transform_expr(SubSeq(expr, n + 1, Len(expr)), transform)

all_case_variants(expr) ==
    [i \in 1..Len(Transforms) |-> _transform_expr(expr, Transforms[i])]

\* str comparison p < q on pattern text
RECURSIVE StrLess(_, _)
StrLess(p, q) ==
    IF q = <<>> THEN FALSE
    ELSE IF p = <<>> THEN TRUE
    ELSE IF Head(p) = Head(q) THEN StrLess(Tail(p), Tail(q))
    ELSE CharRank(Head(p)) < CharRank(Head(q))

\* tuple comparison of two (regex, replacement) pairs
PairLess(x, y) == StrLess(x[1], y[1]) \/ (x[1] = y[1] /\ StrLess(x[2], y[2]))

\* sorted(set(pairs))
RECURSIVE SortedPairs(_)
SortedPairs(S) ==
    IF S = {} THEN <<>>
    ELSE LET x == CHOOSE y \in S : \A z \in S : z = y \/ PairLess(y, z)
         IN <<x>> \o SortedPairs(S \ {x})

\* the pairs one rule line gives: the case variants zipped, and the original
LinePairs(regex, replacement, preserve_case) ==
    LET variants == IF preserve_case
                    THEN {<<all_case_variants(regex)[i], all_case_variants(replacement)[i]>> :
                              i \in 1..Len(Transforms)}
                    ELSE {}
    IN SortedPairs(variants \cup {<<regex, replacement>>})

\* does re.compile raise on the pattern (an unbalanced parenthesis)
CompileFails(regex) == \E i \in 1..Len(regex) : regex[i] = "("

\* a line is a comment when it starts with # after leading whitespace
IsCommentLine(line) == strip(line) # <<>> /\ strip(line)[1] = "#"

\* the body of the loop of parse_patterns for one line: the rules it appends,
\* or err when compiling raises
ParseLine(line, preserve_case) ==
    LET bits == SplitOn(line, TAB) IN
    IF IsCommentLine(line) THEN [err |-> FALSE, rules |-> <<>>]
    ELSE IF strip(line) # <<>> /\ Len(bits) = 2
    THEN LET pairs == LinePairs(bits[1], bits[2], preserve_case) IN
         IF \E i \in 1..Len(pairs) : CompileFails(pairs[i][1])
         THEN [err |-> TRUE, rules |-> <<>>]
         ELSE [err |-> FALSE,
               rules |-> [i \in 1..Len(pairs) |->
                             [pat |-> [kind |-> "lit", w |-> pairs[i][1]], rep |-> pairs[i][2]]]]
    ELSE [err |-> FALSE, rules |-> <<>>]

\* parse_patterns from line k on, with the rules collected so far
RECURSIVE ParseFrom(_, _, _, _)
ParseFrom(lines, k, preserve_case, rules) ==
    IF k > Len(lines) THEN [err |-> FALSE, rules |-> rules]
    ELSE LET one == ParseLine(lines[k], preserve_case) IN
         IF one.err THEN [err |-> TRUE, rules |-> <<>>]
         ELSE ParseFrom(lines, k + 1, preserve_case, rules \o one.rules)

\* parse_patterns with literal, word_breaks, insensitive and dotall False
parse_patterns(lines, preserve_case) == ParseFrom(lines, 1, preserve_case, <<>>)

\* ------------------------------------------------------------------------
\* Paths
\* ------------------------------------------------------------------------

\* A path is a sequence of symbols: names, the separator "/", and the
\* suffixes ".orig", ".repren.tmp", ".1", ".2", ...

BACKUP_SUFFIX == <<".orig">>
TEMP_SUFFIX == <<".repren.tmp">>

\* the numeric suffixes f".{i}" of move_file
NumSuffixes == <<".1", ".2", ".3", ".4", ".5", ".6">>

\* the symbols of paths in byte order
SymbolOrder == NumSuffixes \o <<".orig", ".repren.tmp", "/", "a", "b", "c", "d", "e">>

Rank(x) == CHOOSE i \in 1..Len(SymbolOrder) : SymbolOrder[i] = x

\* str comparison p < q
RECURSIVE PathLess(_, _)
PathLess(p, q) ==
    IF q = <<>> THEN FALSE
    ELSE IF p = <<>> THEN TRUE
    ELSE IF Head(p) = Head(q) THEN PathLess(Tail(p), Tail(q))
    ELSE Rank(Head(p)) < Rank(Head(q))

\* list.sort(): insertion of x into a sorted list, and the sort itself
RECURSIVE SortedInsert(_, _)
SortedInsert(sorted, x) ==
    IF sorted = <<>> THEN <<x>>
    ELSE IF PathLess(x, Head(sorted)) THEN <<x>> \o sorted
    ELSE <<Head(sorted)>> \o SortedInsert(Tail(sorted), x)

RECURSIVE SortPaths(_)
SortPaths(ps) ==
    IF ps = <<>> THEN <<>> ELSE SortedInsert(SortPaths(Tail(ps)), Head(ps))

\* the paths of a set, as a sorted list
RECURSIVE SortedSeqOf(_)
SortedSeqOf(S) ==
    IF S = {} THEN <<>>
    ELSE LET x == CHOOSE y \in S : \A z \in S : z = y \/ PathLess(y, z)
         IN <<x>> \o SortedSeqOf(S \ {x})

\* str.endswith
EndsWith(path, suffix) ==
    /\ Len(path) >= Len(suffix)
    /\ SubSeq(path, Len(path) - Len(suffix) + 1, Len(path)) = suffix

\* str.startswith
StartsWith(path, prefix) ==
    /\ Len(path) >= Len(prefix)
    /\ SubSeq(path, 1, Len(prefix)) = prefix

SepsOf(path) == {i \in 1..Len(path) : path[i] = "/"}

MaxOf(S) == CHOOSE x \in S : \A y \in S : y <= x

\* os.path.dirname and os.path.basename
dirname(path) ==
    IF SepsOf(path) = {} THEN <<>> ELSE SubSeq(path, 1, MaxOf(SepsOf(path)) - 1)

basename(path) ==
    IF SepsOf(path) = {} THEN path ELSE SubSeq(path, MaxOf(SepsOf(path)) + 1, Len(path))

\* a directory and the directories above it
Ancestors(dir) == {SubSeq(dir, 1, i - 1) : i \in SepsOf(dir)} \cup {dir}

\* the match of trailing_num, (.*)[.]\d+$, in move_file
HasTrailingNum(path) ==
    path # <<>> /\ \E i \in 1..Len(NumSuffixes) : path[Len(path)] = NumSuffixes[i]

\* ------------------------------------------------------------------------
\* The file system: files maps each existing file's path to its bytes and
\* modification time, dirs is the set of existing directories
\* ------------------------------------------------------------------------

\* os.path.exists
Exists(fs, ds, path) == path \in DOMAIN fs \/ path \in ds

\* a file system with path holding file f, and with path removed
WithFile(fs, path, f) == [q \in DOMAIN fs \cup {path} |-> IF q = path THEN f ELSE fs[q]]
WithoutFile(fs, path) == [q \in DOMAIN fs \ {path} |-> fs[q]]

\* shutil.move(source_path, dest_path) of a file onto a path that is no directory
Moved(fs, source_path, dest_path) ==
    WithFile(WithoutFile(fs, source_path), dest_path, fs[source_path])

\* os.makedirs(dir, exist_ok=True) raises for the empty path and when a file
\* is in the way
MakedirsFails(fs, dir) ==
    dir = <<>> \/ \E a \in Ancestors(dir) : a \in DOMAIN fs

\* a make_parent_dirs that creates nothing
MakesNoDirs(ds, path) ==
    ds

\* make_parent_dirs(path): the directories after os.makedirs of the path's
\* directory (asked only when MakedirsFails does not hold)
make_parent_dirs(ds, path) ==
    ds \cup Ancestors(dirname(path))

\* a move_file that does not look whether its destination exists
TakenDest(fs, ds, dest_path, i) == dest_path

\* the destination the loop of move_file ends with when clobber is False
RECURSIVE NoClobberDest(_, _, _, _)
NoClobberDest(fs, ds, dest_path, i) ==
    IF Exists(fs, ds, dest_path)
    THEN NoClobberDest(fs, ds,
             (IF HasTrailingNum(dest_path) THEN SubSeq(dest_path, 1, Len(dest_path) - 1)
              ELSE dest_path) \o <<NumSuffixes[i]>>,
             i + 1)
    ELSE dest_path

\* the path move_file moves source_path to
MoveTarget(fs, ds, dest_path, clobber) ==
    IF clobber THEN dest_path ELSE NoClobberDest(fs, ds, dest_path, 1)

\* a transform_file that keeps its output only when a match was found
KeepsWhenFound(dry, source, dest, found) ==
    ~dry /\ found > 0

\* transform_file, line 860: are the source moved to the backup path and the
\* temp file to the destination (else the temp file is removed)
KeepsOutput(dry, source, dest, found) ==
    ~dry /\ (dest # source \/ found > 0)

\* bytes written from offset 0 to a file opened without truncation: what the
\* file held beyond them stays
Overlay(new_data, old_data) ==
    new_data \o Slice(old_data, Len(new_data), Len(old_data))

\* a backup path made from the destination instead of the source
OrigPathOfDest(source_path, dest_path) == dest_path \o BACKUP_SUFFIX

\* orig_path and temp_path of transform_file
OrigPath(source_path, dest_path) == source_path \o BACKUP_SUFFIX
TempPath(source_path, dest_path) == dest_path \o TEMP_SUFFIX

\* the names DEFAULT_EXCLUDE_PAT, ^\., excludes
Excluded(name) == name # <<>> /\ Rank(name[1]) < Rank("/")

IsBackupOrTemp(path) == EndsWith(path, BACKUP_SUFFIX) \/ EndsWith(path, TEMP_SUFFIX)

\* the files os.walk finds under a directory (none if it is no directory)
FilesUnder(fs, ds, dir) ==
    {q \in DOMAIN fs : dir \in ds /\ StartsWith(q, dir \o <<"/">>)
                        /\ \A a \in Ancestors(dirname(q)) :
                              StartsWith(a, dir \o <<"/">>) => ~Excluded(basename(a))}

\* the include pattern ".*", and include_re.match(f): a literal pattern
\* matches the names that start with it
IncludeAll == [kind |-> "any"]

ReMatch(pat, f) == pat = IncludeAll \/ StartsWith(f, pat.w)

\* a walk that tests the include pattern before the suffixes
WalkOneIncludeFirst(fs, ds, path, include) ==
    IF path \in DOMAIN fs
    THEN IF ~ReMatch(include, basename(path)) THEN [out |-> <<>>, skipped |-> 0]
         ELSE IF IsBackupOrTemp(path) THEN [out |-> <<>>, skipped |-> 1]
         ELSE IF ~Excluded(basename(path)) THEN [out |-> <<path>>, skipped |-> 0]
         ELSE [out |-> <<>>, skipped |-> 0]
    ELSE LET found == {q \in FilesUnder(fs, ds, path) : ReMatch(include, basename(q))} IN
         [out |-> SortedSeqOf({q \in found : ~IsBackupOrTemp(basename(q))
                                              /\ ~Excluded(basename(q))}),
          skipped |-> Cardinality({q \in found : IsBackupOrTemp(basename(q))})]

\* walk_files for one root: the paths it appends, and how many it skips
WalkOne(fs, ds, path, include) ==
    IF path \in DOMAIN fs
    THEN IF IsBackupOrTemp(path) THEN [out |-> <<>>, skipped |-> 1]
         ELSE IF ReMatch(include, basename(path)) /\ ~Excluded(basename(path))
         THEN [out |-> <<path>>, skipped |-> 0]
         ELSE [out |-> <<>>, skipped |-> 0]
    ELSE LET found == FilesUnder(fs, ds, path) IN
         [out |-> SortedSeqOf({q \in found : /\ ~IsBackupOrTemp(basename(q))
                                              /\ ReMatch(include, basename(q))
                                              /\ ~Excluded(basename(q))}),
          skipped |-> Cardinality({q \in found : IsBackupOrTemp(basename(q))})]

RECURSIVE WalkFrom(_, _, _, _, _)
WalkFrom(fs, ds, roots, k, include) ==
    IF k > Len(roots) THEN [out |-> <<>>, skipped |-> 0]
    ELSE LET one == WalkOne(fs, ds, roots[k], include)
             rest == WalkFrom(fs, ds, roots, k + 1, include)
         IN [out |-> one.out \o rest.out, skipped |-> one.skipped + rest.skipped]

\* walk_files with the default exclude_pat
walk_files(fs, ds, roots, include) ==
    LET w == WalkFrom(fs, ds, roots, 1, include) IN
    [out |-> SortPaths(w.out), skipped |-> w.skipped]

\* find_backup_files for one root and for all
BackupsOne(fs, ds, path) ==
    IF path \in DOMAIN fs
    THEN IF EndsWith(path, BACKUP_SUFFIX) /\ ~Excluded(basename(path)) THEN <<path>> ELSE <<>>
    ELSE SortedSeqOf({q \in FilesUnder(fs, ds, path) :
                         EndsWith(basename(q), BACKUP_SUFFIX) /\ ~Excluded(basename(q))})

RECURSIVE BackupsFrom(_, _, _, _)
BackupsFrom(fs, ds, roots, k) ==
    IF k > Len(roots) THEN <<>>
    ELSE BackupsOne(fs, ds, roots[k]) \o BackupsFrom(fs, ds, roots, k + 1)

find_backup_files(fs, ds, roots) == SortPaths(BackupsFrom(fs, ds, roots, 1))

\* undo_backups: the path a backup path is the backup of
OriginalOf(backup_path) == SubSeq(backup_path, 1, Len(backup_path) - Len(BACKUP_SUFFIX))

\* an undo that also skips a backup as old as its target
UndoSkipsNotOlder(fs, ds, backup_path, target_path) ==
    \/ ~Exists(fs, ds, target_path)
    \/ target_path \in DOMAIN fs /\ fs[backup_path].mtime >= fs[target_path].mtime

\* undo_backups, lines 1087-1098: is the backup skipped (asked only when the
\* backup exists or the target does not)
UndoSkips(fs, ds, backup_path, target_path) ==
    \/ ~Exists(fs, ds, target_path)
    \/ target_path \in DOMAIN fs /\ fs[backup_path].mtime > fs[target_path].mtime

\* an undo that restores in a dry run too
UndoEffectAlways(fs, ds, dry, backup_path, original_path, predicted_path) ==
    LET moved == Moved(fs, backup_path, original_path) IN
    IF predicted_path # original_path /\ Exists(moved, ds, predicted_path)
    THEN WithoutFile(moved, predicted_path)
    ELSE moved

\* undo_backups, lines 1100-1109: the files after a backup is restored
UndoEffect(fs, ds, dry, backup_path, original_path, predicted_path) ==
    IF dry THEN fs
    ELSE LET moved == Moved(fs, backup_path, original_path) IN
         IF predicted_path # original_path /\ Exists(moved, ds, predicted_path)
         THEN WithoutFile(moved, predicted_path)
         ELSE moved

\* one iteration of the loop of undo_backups: it raises when the rules do not
\* expand on the path and when the target exists and the backup does not
\* (os.path.getmtime), else it skips or restores
UndoOne(fs, ds, rules, backup_path, dry) ==
    LET original_path == OriginalOf(backup_path)
        predicted == multi_replace(original_path, rules)
        predicted_path == predicted.out
        target_path == predicted_path
    IN IF predicted.err
       THEN [raised |-> TRUE, skip |-> FALSE, files |-> fs]
       ELSE IF Exists(fs, ds, target_path) /\ backup_path \notin DOMAIN fs
       THEN [raised |-> TRUE, skip |-> FALSE, files |-> fs]
       ELSE IF UndoSkips(fs, ds, backup_path, target_path)
       THEN [raised |-> FALSE, skip |-> TRUE, files |-> fs]
       ELSE [raised |-> FALSE, skip |-> FALSE,
             files |-> UndoEffect(fs, ds, dry, backup_path, original_path, predicted_path)]

\* the loop of undo_backups from backup k on: the counts it returns and the
\* files it leaves
RECURSIVE UndoAll(_, _, _, _, _, _, _, _)
UndoAll(fs, ds, rules, backups, k, dry, n_restored, n_skipped) ==
    IF k > Len(backups)
    THEN [raised |-> FALSE, restored |-> n_restored, skipped |-> n_skipped, files |-> fs]
    ELSE LET one == UndoOne(fs, ds, rules, backups[k], dry) IN
         IF one.raised
         THEN [raised |-> TRUE, restored |-> n_restored, skipped |-> n_skipped, files |-> fs]
         ELSE UndoAll(one.files, ds, rules, backups, k + 1, dry,
                      IF one.skip THEN n_restored ELSE n_restored + 1,
                      IF one.skip THEN n_skipped + 1 ELSE n_skipped)

\* undo_backups
undo_backups(fs, ds, roots, rules, dry) ==
    UndoAll(fs, ds, rules, find_backup_files(fs, ds, roots), 1, dry, 0, 0)

\* a content-only dry run of rewrite_files on files fs from path k of the
\* walk on: nothing is moved, so every path is read as it was; the run raises
\* when the temp file's directory cannot be made or the rules do not expand
RECURSIVE DryRunFrom(_, _, _, _, _, _)
DryRunFrom(fs, rules, ps, k, n_matches, n_valid) ==
    IF k > Len(ps)
    THEN [raised |-> FALSE, matches |-> n_matches, valid_matches |-> n_valid]
    ELSE LET r == multi_replace(fs[ps[k]].data, rules) IN
         IF MakedirsFails(fs, dirname(TempPath(ps[k], ps[k]))) \/ r.err
         THEN [raised |-> TRUE, matches |-> n_matches, valid_matches |-> n_valid]
         ELSE DryRunFrom(fs, rules, ps, k + 1, n_matches + r.found, n_valid + r.valid)

\* the tally of matches of rewrite_files(roots, rules, do_contents=True,
\* dry_run=True)
DryRunTally(fs, ds, roots, rules) ==
    DryRunFrom(fs, rules, walk_files(fs, ds, roots, IncludeAll).out, 1, 0, 0)

\* ------------------------------------------------------------------------
\* State
\* ------------------------------------------------------------------------

VARIABLES
    \* one call of multi_replace
    input_bytes,    \* the input
    patterns,       \* the rule set: a sequence of [pat, rep]
    matches,        \* the collector's list of candidate matches
    next_match,     \* the candidate _sort_drop_overlaps looks at next
    non_overlaps,   \* the selection built so far
    result,         \* what multi_replace returns
    mr_pc,          \* "start", "resolve", "done" (or "idle")
    \* the file system
    files,          \* path -> [data, mtime] for every existing file
    dirs,           \* the existing directories
    clock,          \* the time the next write is stamped with
    files0,         \* files and dirs as they were before the run
    dirs0,
    \* one run of rewrite_files, and undo_backups after it
    root_paths,
    do_renames,
    do_contents,
    dry_run,
    paths,          \* the list walk_files returned
    idx,            \* the position of the loop of rewrite_files in paths
    pc,             \* where the run is
    source_path,    \* the arguments and locals of transform_file
    dest_path,
    counts,
    contents,       \* the bytes transform_stream read from the source
    new_contents,   \* the bytes the transformer returned
    temp_opened,    \* has this call opened its temp file
    placed_path,    \* where the last move_file without clobber moved to
    tally,          \* _tally
    backup_files,   \* the list find_backup_files returned to undo_backups
    undo_idx,       \* the position of the loop of undo_backups
    undo_dry_run,
    restored,
    skipped,
    \* one call of clean_backups, or of undo_backups
    files1,         \* files as they were when the call began
    clean_idx,      \* the position of the loop of clean_backups
    clean_dry_run,
    removed,
    \* one call of parse_patterns
    patterns_str,   \* the pattern text, as the list of its lines
    preserve_case,
    line_no,        \* the line the loop of parse_patterns looks at next
    pp_pc,          \* "parse", "done", "failed", "used" (or "idle")
    \* one call of walk_files
    include_pat,
    skipped_backup_count,   \* the second result of walk_files
    \* one call of _split_name
    name,
    split,          \* what _split_name returned: [sep, words]
    split_pc        \* "call", "returned" (or "idle")

mr_vars == <<input_bytes, matches, next_match, non_overlaps, result, mr_pc>>

fs_vars == <<files, dirs, clock, files0, dirs0>>

run_params == <<root_paths, do_renames, do_contents, dry_run, paths>>

call_vars == <<source_path, dest_path, counts, contents, new_contents, temp_opened, placed_path>>

undo_vars == <<backup_files, undo_idx, undo_dry_run, restored, skipped>>

clean_vars == <<files1, clean_idx, clean_dry_run, removed>>

pp_vars == <<patterns_str, preserve_case, line_no, pp_pc>>

walk_vars == <<include_pat, skipped_backup_count>>

split_vars == <<name, split, split_pc>>

vars == <<mr_vars, patterns, fs_vars, run_params, idx, pc, call_vars, tally, undo_vars,
          clean_vars, pp_vars, walk_vars, split_vars>>

NoCounts == [found |-> 0, valid |-> 0]

ZeroTally == [files |-> 0, chars |-> 0, matches |-> 0, valid_matches |-> 0,
              files_changed |-> 0, files_rewritten |-> 0, renames |-> 0]

\* no run of rewrite_files is going on
RunIdle ==
    /\ files = <<>> /\ dirs = {} /\ clock = 0 /\ files0 = <<>> /\ dirs0 = {}
    /\ root_paths = <<>> /\ do_renames = FALSE /\ do_contents = FALSE /\ dry_run = FALSE
    /\ paths = <<>> /\ idx = 0 /\ pc = "idle"
    /\ source_path = <<>> /\ dest_path = <<>> /\ counts = NoCounts
    /\ contents = <<>> /\ new_contents = <<>> /\ temp_opened = FALSE /\ placed_path = <<>>
    /\ tally = ZeroTally
    /\ backup_files = <<>> /\ undo_idx = 0 /\ undo_dry_run = FALSE
    /\ restored = 0 /\ skipped = 0
    /\ files1 = <<>> /\ clean_idx = 0 /\ clean_dry_run = FALSE /\ removed = 0
    /\ include_pat = IncludeAll /\ skipped_backup_count = 0

\* _split_name is not being called
SplitIdle == name = <<>> /\ split = [sep |-> <<>>, words |-> <<>>] /\ split_pc = "idle"

\* parse_patterns is not being called
PPIdle ==
    patterns_str = <<>> /\ preserve_case = FALSE /\ line_no = 0 /\ pp_pc = "idle"

\* ------------------------------------------------------------------------
\* multi_replace as a state machine
\* ------------------------------------------------------------------------

\* all sequences over S of length at most n
RECURSIVE SeqsUpTo(_, _)
SeqsUpTo(S, n) ==
    IF n = 0 THEN {<<>>}
    ELSE LET shorter == SeqsUpTo(S, n - 1) IN
         shorter \cup {Append(s, x) : s \in {t \in shorter : Len(t) = n - 1}, x \in S}

Rule(pat, rep) == [pat |-> pat, rep |-> rep]

\* the rules rule sets are drawn from
RuleUniverse ==
    { Rule(Lit(<<"a">>), <<"b">>),
      Rule(Lit(<<"b">>), <<"a">>),
      Rule(Lit(<<"a", "b">>), <<"b", "a">>),
      Rule(Lit(<<"b", "a">>), <<"a", "b">>),
      Rule(Star("a"), <<"c">>),
      Rule(Lit(<<"b", "b">>), <<G0, "c">>),
      Rule(Lit(<<"b">>), <<G1>>) }

\* scenario 3 of the specification's table: 'a b a b'
SwapExample == <<"a", " ", "b", " ", "a", " ", "b">>

Inputs == SeqsUpTo(Bytes, MaxLen) \cup {SwapExample}

NoResult == [err |-> FALSE, out |-> <<>>, found |-> 0, valid |-> 0]

InitMR ==
    /\ input_bytes \in Inputs
    /\ patterns \in SeqsUpTo(RuleUniverse, MaxRules)
    /\ matches = <<>>
    /\ next_match = 1
    /\ non_overlaps = <<>>
    /\ result = NoResult
    /\ mr_pc = "start"
    /\ RunIdle
    /\ PPIdle
    /\ SplitIdle

\* multi_replace, lines 680-683: the collector
Collect ==
    /\ mr_pc = "start"
    /\ matches' = CollectMatches(input_bytes, patterns)
    /\ next_match' = 1
    /\ non_overlaps' = <<>>
    /\ mr_pc' = "resolve"
    /\ UNCHANGED <<input_bytes, patterns, result>>
    /\ UNCHANGED <<fs_vars, run_params, idx, pc, call_vars, tally, undo_vars, walk_vars, split_vars, clean_vars, pp_vars>>

\* one iteration of the loop of _sort_drop_overlaps
DropOverlapsStep ==
    /\ mr_pc = "resolve"
    /\ next_match <= Len(matches)
    /\ non_overlaps' = SortDropStep(non_overlaps, matches[next_match])
    /\ next_match' = next_match + 1
    /\ UNCHANGED <<input_bytes, patterns, matches, result, mr_pc>>
    /\ UNCHANGED <<fs_vars, run_params, idx, pc, call_vars, tally, undo_vars, walk_vars, split_vars, clean_vars, pp_vars>>

\* _sort_drop_overlaps returns; _apply_replacements and the counts
Apply ==
    /\ mr_pc = "resolve"
    /\ next_match > Len(matches)
    /\ result' = IF ApplyFails(patterns, non_overlaps)
                 THEN [err |-> TRUE, out |-> <<>>,
                       found |-> Len(matches), valid |-> Len(non_overlaps)]
                 ELSE [err |-> FALSE,
                       out |-> _apply_replacements(input_bytes, patterns, non_overlaps),
                       found |-> Len(matches), valid |-> Len(non_overlaps)]
    /\ mr_pc' = "done"
    /\ UNCHANGED <<input_bytes, patterns, matches, next_match, non_overlaps>>
    /\ UNCHANGED <<fs_vars, run_params, idx, pc, call_vars, tally, undo_vars, walk_vars, split_vars, clean_vars, pp_vars>>

NextMR == Collect \/ DropOverlapsStep \/ Apply

SpecMR == InitMR /\ [][NextMR]_vars

\* the stepwise run computes what the operator multi_replace computes
MRStepwiseAgrees ==
    mr_pc = "done" => result = multi_replace(input_bytes, patterns)

\* ------------------------------------------------------------------------
\* parse_patterns as a state machine, and multi_replace with its rule set
\* ------------------------------------------------------------------------

\* the lines pattern texts are made of: rule lines (one with an empty
\* pattern, one whose pattern does not compile), blank and comment lines, and
\* lines of one and of three fields
CandidateLines ==
    { <<"a", "\t", "b">>,
      <<"A", "\t", "b">>,
      <<"a", "\t", "B">>,
      <<"a", "_", "b", "\t", "b", "A">>,
      <<>>,
      <<" ", "\t">>,
      <<"#", "a", "\t", "b">>,
      <<" ", "#">>,
      <<"a">>,
      <<"a", "\t", "b", "\t", "a">>,
      <<"\t", "a">>,
      <<"(", "\t", "a">> }

\* the inputs the parsed rule set is applied to
PPInputs == { <<"a">>, <<"A">>, <<"a", "_", "b">>, <<"a", "B">> }

InitPP ==
    /\ patterns_str \in SeqsUpTo(CandidateLines, MaxLines)
    /\ preserve_case \in BOOLEAN
    /\ line_no = 1
    /\ patterns = <<>>
    /\ pp_pc = "parse"
    /\ input_bytes = <<>> /\ matches = <<>> /\ next_match = 1 /\ non_overlaps = <<>>
    /\ result = NoResult /\ mr_pc = "idle"
    /\ RunIdle
    /\ SplitIdle

\* one iteration of the loop of parse_patterns; _fail raises
ParseNextLine ==
    /\ pp_pc = "parse"
    /\ line_no <= Len(patterns_str)
    /\ LET one == ParseLine(patterns_str[line_no], preserve_case) IN
       IF one.err
       THEN pp_pc' = "failed" /\ UNCHANGED <<patterns, line_no>>
       ELSE /\ patterns' = patterns \o one.rules
            /\ line_no' = line_no + 1
            /\ UNCHANGED pp_pc
    /\ UNCHANGED <<patterns_str, preserve_case>>
    /\ UNCHANGED <<mr_vars, fs_vars, run_params, idx, pc, call_vars, tally, undo_vars, walk_vars, split_vars, clean_vars>>

\* parse_patterns returns its rule set
ParseReturn ==
    /\ pp_pc = "parse"
    /\ line_no > Len(patterns_str)
    /\ pp_pc' = "done"
    /\ UNCHANGED <<patterns, patterns_str, preserve_case, line_no>>
    /\ UNCHANGED <<mr_vars, fs_vars, run_params, idx, pc, call_vars, tally, undo_vars, walk_vars, split_vars, clean_vars>>

\* multi_replace is called with the rule set parse_patterns returned
CallReplace ==
    /\ pp_pc = "done"
    /\ input_bytes' \in PPInputs
    /\ mr_pc' = "start"
    /\ pp_pc' = "used"
    /\ UNCHANGED <<patterns, patterns_str, preserve_case, line_no>>
    /\ UNCHANGED <<matches, next_match, non_overlaps, result>>
    /\ UNCHANGED <<fs_vars, run_params, idx, pc, call_vars, tally, undo_vars, walk_vars, split_vars, clean_vars>>

NextPP ==
    \/ ParseNextLine \/ ParseReturn \/ CallReplace
    \/ Collect \/ DropOverlapsStep \/ Apply

SpecPP == InitPP /\ [][NextPP]_vars

\* the stepwise parse computes what the operator parse_patterns computes
PPStepwiseAgrees ==
    /\ pp_pc \in {"done", "used"} =>
          LET r == parse_patterns(patterns_str, preserve_case) IN ~r.err /\ r.rules = patterns
    /\ pp_pc = "failed" => parse_patterns(patterns_str, preserve_case).err

\* ------------------------------------------------------------------------
\* rewrite_files and undo_backups as a state machine
\* ------------------------------------------------------------------------

\* Runs are modelled with by_line = False, include_pat ".*" and the default
\* exclude_pat and backup_suffix, the defaults of rewrite_files.

\* the rule sets of the runs: a -> b, the swap of a and b, the directory
\* rename d -> e, and a rule whose replacement names a missing group
RunRuleSets ==
    { <<Rule(Lit(<<"a">>), <<"b">>)>>,
      <<Rule(Lit(<<"a">>), <<"b">>), Rule(Lit(<<"b">>), <<"a">>)>>,
      <<Rule(Lit(<<"d">>), <<"e">>)>>,
      <<Rule(Lit(<<"a">>), <<G1>>)>> }

\* the files a tree may hold before the run: d/a, d/b and a (in the working
\* directory), and leftovers of earlier runs, one of them a backup written
\* after the files of the tree
CandidateFiles ==
    { [path |-> <<"d", "/", "a">>, data |-> <<"a">>, mtime |-> 0],
      [path |-> <<"d", "/", "a">>, data |-> <<"b", "b">>, mtime |-> 0],
      [path |-> <<"d", "/", "b">>, data |-> <<"a">>, mtime |-> 0],
      [path |-> <<"d", "/", "b">>, data |-> <<"b", "b">>, mtime |-> 0],
      [path |-> <<"a">>, data |-> <<"a">>, mtime |-> 0],
      [path |-> <<"d", "/", "a", ".orig">>, data |-> <<"b", "b">>, mtime |-> 0],
      [path |-> <<"d", "/", "a", ".orig">>, data |-> <<"b", "b">>, mtime |-> 1],
      [path |-> <<"d", "/", "a", ".repren.tmp">>, data |-> <<"b", "b">>, mtime |-> 0],
      [path |-> <<"d", "/", "b", ".repren.tmp">>, data |-> <<"b", "b">>, mtime |-> 0] }

Trees ==
    {T \in SUBSET CandidateFiles :
        /\ Cardinality(T) <= MaxFiles
        /\ \A x, y \in T : x.path = y.path => x = y}

TreeFiles(T) ==
    [q \in {x.path : x \in T} |->
        LET x == CHOOSE y \in T : y.path = q IN [data |-> x.data, mtime |-> x.mtime]]

\* the roots of a run: the directory, a file in it, and a bare file name
RootUniverse == {<<"d">>, <<"d", "/", "a">>, <<"a">>}

MRIdle ==
    /\ input_bytes = <<>> /\ matches = <<>> /\ next_match = 1 /\ non_overlaps = <<>>
    /\ result = NoResult /\ mr_pc = "idle"

Init ==
    /\ MRIdle
    /\ patterns \in RunRuleSets
    /\ files \in {TreeFiles(T) : T \in Trees}
    /\ dirs = {<<"d">>}
    /\ clock = 2
    /\ files0 = files /\ dirs0 = dirs
    /\ root_paths \in SeqsUpTo(RootUniverse, MaxRoots) \ {<<>>}
    /\ do_renames \in BOOLEAN /\ do_contents \in BOOLEAN /\ dry_run \in BOOLEAN
    /\ paths = <<>> /\ idx = 1 /\ pc = "start"
    /\ source_path = <<>> /\ dest_path = <<>> /\ counts = NoCounts
    /\ contents = <<>> /\ new_contents = <<>> /\ temp_opened = FALSE /\ placed_path = <<>>
    /\ tally = ZeroTally
    /\ backup_files = <<>> /\ undo_idx = 0 /\ undo_dry_run = FALSE
    /\ restored = 0 /\ skipped = 0
    /\ files1 = <<>> /\ clean_idx = 0 /\ clean_dry_run = FALSE /\ removed = 0
    /\ PPIdle
    /\ include_pat = IncludeAll /\ skipped_backup_count = 0
    /\ SplitIdle

\* rewrite_files, lines 976-981: the walk
Walk ==
    /\ pc = "start"
    /\ paths' = walk_files(files, dirs, root_paths, include_pat).out
    /\ skipped_backup_count' = walk_files(files, dirs, root_paths, include_pat).skipped
    /\ idx' = 1
    /\ pc' = "next"
    /\ UNCHANGED <<include_pat, split_vars, pp_vars, clean_vars, mr_vars, patterns, fs_vars, root_paths, do_renames, do_contents, dry_run,
                   call_vars, tally, undo_vars>>

\* the loop of rewrite_files takes the next path: rewrite_file computes the
\* destination and calls transform_file, which picks its branch
PickFile ==
    /\ pc = "next"
    /\ idx <= Len(paths)
    /\ LET path == paths[idx]
           renamed == multi_replace(path, patterns)
       IN /\ source_path' = path
          /\ IF do_renames /\ renamed.err
             THEN dest_path' = path /\ pc' = "raised"
             ELSE /\ dest_path' = IF do_renames THEN renamed.out ELSE path
                  /\ pc' = IF do_contents THEN "mkdirs"
                           ELSE IF dest_path' # path /\ ~dry_run THEN "rn_mkdirs"
                           ELSE "tally"
    /\ counts' = NoCounts /\ contents' = <<>> /\ new_contents' = <<>>
    /\ temp_opened' = FALSE /\ placed_path' = <<>>
    /\ UNCHANGED <<pp_vars, walk_vars, split_vars, clean_vars, mr_vars, patterns, fs_vars, run_params, idx, tally, undo_vars>>

\* transform_file, line 852: make_parent_dirs(temp_path)
MakeTempDirs ==
    /\ pc = "mkdirs"
    /\ LET dir == dirname(TempPath(source_path, dest_path)) IN
       IF MakedirsFails(files, dir)
       THEN pc' = "raised" /\ UNCHANGED dirs
       ELSE pc' = "write" /\ dirs' = make_parent_dirs(dirs, TempPath(source_path, dest_path))
    /\ UNCHANGED <<pp_vars, walk_vars, split_vars, clean_vars, mr_vars, patterns, files, clock, files0, dirs0, run_params, idx,
                   call_vars, tally, undo_vars>>

\* transform_file, lines 853-856: stat and open the source, open the temp
\* file (creating it, not truncating it), transform and write
WriteTemp ==
    /\ pc = "write"
    /\ LET temp_path == TempPath(source_path, dest_path) IN
       IF source_path \notin DOMAIN files \/ temp_path \in dirs
       THEN /\ pc' = "raised"
            /\ UNCHANGED <<files, clock, counts, contents, new_contents, temp_opened, tally>>
       ELSE LET data == files[source_path].data
                r == multi_replace(data, patterns)
                fresh == temp_path \notin DOMAIN files
                old == IF fresh THEN [data |-> <<>>, mtime |-> clock] ELSE files[temp_path]
            IN /\ temp_opened' = TRUE
               /\ contents' = data
               /\ clock' = clock + 1
               /\ IF r.err
                  THEN /\ files' = WithFile(files, temp_path, old)
                       /\ pc' = "raised"
                       /\ UNCHANGED <<counts, new_contents, tally>>
                  ELSE /\ files' = WithFile(files, temp_path,
                                      [data |-> Overlay(r.out, old.data),
                                       mtime |-> IF r.out = <<>> THEN old.mtime ELSE clock])
                       /\ new_contents' = r.out
                       /\ counts' = [found |-> r.found, valid |-> r.valid]
                       /\ tally' = [tally EXCEPT !.chars = @ + Len(data),
                                                 !.matches = @ + r.found,
                                                 !.valid_matches = @ + r.valid]
                       /\ pc' = IF KeepsOutput(dry_run, source_path, dest_path, r.found)
                                THEN "backup" ELSE "discard"
    /\ UNCHANGED <<pp_vars, walk_vars, split_vars, clean_vars, mr_vars, patterns, dirs, files0, dirs0, run_params, idx,
                   source_path, dest_path, placed_path, undo_vars>>

\* transform_file, line 861: move_file(source_path, orig_path, clobber=True)
MoveToBackup ==
    /\ pc = "backup"
    /\ files' = Moved(files, source_path,
                      MoveTarget(files, dirs, OrigPath(source_path, dest_path), TRUE))
    /\ pc' = "place"
    /\ UNCHANGED <<pp_vars, walk_vars, split_vars, clean_vars, mr_vars, patterns, dirs, clock, files0, dirs0, run_params, idx,
                   call_vars, tally, undo_vars>>

\* transform_file, line 862: move_file(temp_path, dest_path, clobber=False)
MoveTempToDest ==
    /\ pc = "place"
    /\ LET target == MoveTarget(files, dirs, dest_path, FALSE) IN
       /\ files' = Moved(files, TempPath(source_path, dest_path), target)
       /\ placed_path' = target
    /\ pc' = "tally"
    /\ UNCHANGED <<pp_vars, walk_vars, split_vars, clean_vars, mr_vars, patterns, dirs, clock, files0, dirs0, run_params, idx,
                   source_path, dest_path, counts, contents, new_contents, temp_opened,
                   tally, undo_vars>>

\* transform_file, line 865: os.remove(temp_path)
RemoveTemp ==
    /\ pc = "discard"
    /\ files' = WithoutFile(files, TempPath(source_path, dest_path))
    /\ pc' = "tally"
    /\ UNCHANGED <<pp_vars, walk_vars, split_vars, clean_vars, mr_vars, patterns, dirs, clock, files0, dirs0, run_params, idx,
                   call_vars, tally, undo_vars>>

\* transform_file, line 876: make_parent_dirs(dest_path), renaming only
MakeDestDirs ==
    /\ pc = "rn_mkdirs"
    /\ LET dir == dirname(dest_path) IN
       IF MakedirsFails(files, dir)
       THEN pc' = "raised" /\ UNCHANGED dirs
       ELSE pc' = "rn_move" /\ dirs' = make_parent_dirs(dirs, dest_path)
    /\ UNCHANGED <<pp_vars, walk_vars, split_vars, clean_vars, mr_vars, patterns, files, clock, files0, dirs0, run_params, idx,
                   call_vars, tally, undo_vars>>

\* transform_file, line 877: move_file(source_path, dest_path, clobber=False)
RenameMove ==
    /\ pc = "rn_move"
    /\ IF source_path \notin DOMAIN files
       THEN pc' = "raised" /\ UNCHANGED <<files, placed_path>>
       ELSE LET target == MoveTarget(files, dirs, dest_path, FALSE) IN
            /\ files' = Moved(files, source_path, target)
            /\ placed_path' = target
            /\ pc' = "tally"
    /\ UNCHANGED <<pp_vars, walk_vars, split_vars, clean_vars, mr_vars, patterns, dirs, clock, files0, dirs0, run_params, idx,
                   source_path, dest_path, counts, contents, new_contents, temp_opened,
                   tally, undo_vars>>

\* transform_file, lines 867-884: the tally, and the return to the loop
UpdateTally ==
    /\ pc = "tally"
    /\ LET renamed == dest_path # source_path
           changed == IF do_contents THEN counts.found > 0 \/ renamed ELSE renamed
           counted == do_contents \/ renamed
       IN tally' = [tally EXCEPT
                       !.files = IF counted THEN @ + 1 ELSE @,
                       !.files_rewritten = IF do_contents /\ counts.found > 0 THEN @ + 1 ELSE @,
                       !.renames = IF renamed THEN @ + 1 ELSE @,
                       !.files_changed = IF changed THEN @ + 1 ELSE @]
    /\ idx' = idx + 1
    /\ pc' = "next"
    /\ UNCHANGED <<pp_vars, walk_vars, split_vars, clean_vars, mr_vars, patterns, fs_vars, run_params, call_vars, undo_vars>>

\* the loop of rewrite_files ends
Finish ==
    /\ pc = "next"
    /\ idx > Len(paths)
    /\ pc' = "done"
    /\ UNCHANGED <<pp_vars, walk_vars, split_vars, clean_vars, mr_vars, patterns, fs_vars, run_params, idx, call_vars, tally, undo_vars>>

\* undo_backups is called after the run, with the run's roots and rules
StartUndo ==
    /\ pc \in {"done", "raised"}
    /\ backup_files' = find_backup_files(files, dirs, root_paths)
    /\ undo_idx' = 1
    /\ undo_dry_run' \in BOOLEAN
    /\ restored' = 0 /\ skipped' = 0
    /\ pc' = "undo"
    /\ files1' = files
    /\ UNCHANGED <<clean_idx, clean_dry_run, removed>>
    /\ UNCHANGED <<walk_vars, split_vars, pp_vars, mr_vars, patterns, fs_vars, run_params, idx, call_vars, tally>>

\* one iteration of the loop of undo_backups
UndoStep ==
    /\ pc = "undo"
    /\ undo_idx <= Len(backup_files)
    /\ LET one == UndoOne(files, dirs, patterns, backup_files[undo_idx], undo_dry_run) IN
       IF one.raised
       THEN pc' = "raised_undo" /\ UNCHANGED <<files, undo_idx, restored, skipped>>
       ELSE /\ pc' = pc
            /\ undo_idx' = undo_idx + 1
            /\ files' = one.files
            /\ IF one.skip
               THEN skipped' = skipped + 1 /\ UNCHANGED restored
               ELSE restored' = restored + 1 /\ UNCHANGED skipped
    /\ UNCHANGED <<pp_vars, walk_vars, split_vars, clean_vars, mr_vars, patterns, dirs, clock, files0, dirs0, run_params, idx,
                   call_vars, tally, backup_files, undo_dry_run>>

\* undo_backups returns
UndoFinish ==
    /\ pc = "undo"
    /\ undo_idx > Len(backup_files)
    /\ pc' = "undone"
    /\ UNCHANGED <<pp_vars, walk_vars, split_vars, clean_vars, mr_vars, patterns, fs_vars, run_params, idx, call_vars, tally, undo_vars>>

\* clean_backups is called after the run, with the run's roots
StartClean ==
    /\ pc \in {"done", "raised"}
    /\ backup_files' = find_backup_files(files, dirs, root_paths)
    /\ files1' = files
    /\ clean_idx' = 1
    /\ clean_dry_run' \in BOOLEAN
    /\ removed' = 0
    /\ pc' = "clean"
    /\ UNCHANGED <<walk_vars, split_vars, pp_vars, mr_vars, patterns, fs_vars, run_params, idx, call_vars, tally,
                   undo_idx, undo_dry_run, restored, skipped>>

\* one iteration of the loop of clean_backups; os.remove raises for a path
\* that does not exist
CleanStep ==
    /\ pc = "clean"
    /\ clean_idx <= Len(backup_files)
    /\ LET backup_path == backup_files[clean_idx] IN
       IF ~clean_dry_run /\ backup_path \notin DOMAIN files
       THEN pc' = "raised_clean" /\ UNCHANGED <<files, clean_idx, removed>>
       ELSE /\ files' = IF clean_dry_run THEN files ELSE WithoutFile(files, backup_path)
            /\ removed' = removed + 1
            /\ clean_idx' = clean_idx + 1
            /\ pc' = pc
    /\ UNCHANGED <<walk_vars, split_vars, pp_vars, mr_vars, patterns, dirs, clock, files0, dirs0, run_params, idx,
                   call_vars, tally, undo_vars, files1, clean_dry_run>>

\* clean_backups returns
CleanFinish ==
    /\ pc = "clean"
    /\ clean_idx > Len(backup_files)
    /\ pc' = "cleaned"
    /\ UNCHANGED <<pp_vars, walk_vars, split_vars, clean_vars, mr_vars, patterns, fs_vars, run_params, idx, call_vars,
                   tally, undo_vars>>

Next ==
    \/ Walk \/ PickFile
    \/ MakeTempDirs \/ WriteTemp \/ MoveToBackup \/ MoveTempToDest \/ RemoveTemp
    \/ MakeDestDirs \/ RenameMove
    \/ UpdateTally \/ Finish
    \/ StartUndo \/ UndoStep \/ UndoFinish
    \/ StartClean \/ CleanStep \/ CleanFinish

Spec == Init /\ [][Next]_vars

\* ------------------------------------------------------------------------
\* walk_files alone, with an include pattern
\* ------------------------------------------------------------------------

\* the paths a walked tree may hold, backups and temp files among them
WalkPaths ==
    { <<"d", "/", "a">>, <<"d", "/", "b">>, <<"a">>,
      <<"d", "/", "a", ".orig">>, <<"d", "/", "b", ".orig">>, <<"a", ".orig">>,
      <<"d", "/", "a", ".repren.tmp">>, <<"d", "/", "b", ".repren.tmp">> }

\* the roots of a walk: a directory, files, and a backup and a temp file
\* named explicitly
WalkRoots ==
    { <<"d">>, <<"d", "/", "a">>, <<"a">>,
      <<"d", "/", "a", ".orig">>, <<"d", "/", "a", ".repren.tmp">> }

\* ".*", and patterns for the names starting with a and with b
IncludePats == {IncludeAll, Lit(<<"a">>), Lit(<<"b">>)}

InitWalk ==
    /\ MRIdle /\ PPIdle /\ SplitIdle
    /\ patterns = <<>>
    /\ \E P \in SUBSET WalkPaths :
          /\ Cardinality(P) <= MaxFiles
          /\ files = [q \in P |-> [data |-> <<>>, mtime |-> 0]]
    /\ dirs = {<<"d">>}
    /\ clock = 2
    /\ files0 = files /\ dirs0 = dirs
    /\ root_paths \in SeqsUpTo(WalkRoots, MaxRoots) \ {<<>>}
    /\ include_pat \in IncludePats
    /\ skipped_backup_count = 0
    /\ do_renames = FALSE /\ do_contents = FALSE /\ dry_run = FALSE
    /\ paths = <<>> /\ idx = 1 /\ pc = "start"
    /\ source_path = <<>> /\ dest_path = <<>> /\ counts = NoCounts
    /\ contents = <<>> /\ new_contents = <<>> /\ temp_opened = FALSE /\ placed_path = <<>>
    /\ tally = ZeroTally
    /\ backup_files = <<>> /\ undo_idx = 0 /\ undo_dry_run = FALSE
    /\ restored = 0 /\ skipped = 0
    /\ files1 = <<>> /\ clean_idx = 0 /\ clean_dry_run = FALSE /\ removed = 0

NextWalk == Walk

SpecWalk == InitWalk /\ [][NextWalk]_vars

\* ------------------------------------------------------------------------
\* _split_name alone
\* ------------------------------------------------------------------------

\* the names _split_name is called with: letters of both cases and underscores
Names == SeqsUpTo({"a", "b", "A", "B", "_"}, MaxLen)

InitSplit ==
    /\ MRIdle /\ PPIdle /\ RunIdle
    /\ patterns = <<>>
    /\ name \in Names
    /\ split = [sep |-> <<>>, words |-> <<>>]
    /\ split_pc = "call"

\* the call of _split_name
SplitName ==
    /\ split_pc = "call"
    /\ split' = _split_name(name)
    /\ split_pc' = "returned"
    /\ UNCHANGED <<name, mr_vars, patterns, fs_vars, run_params, idx, pc, call_vars, tally,
                   undo_vars, clean_vars, pp_vars, walk_vars>>

NextSplit == SplitName

SpecSplit == InitSplit /\ [][NextSplit]_vars

\* every file lies in an existing directory (files in the working directory aside)
FilesHaveParents ==
    \A q \in DOMAIN files : dirname(q) = <<>> \/ dirname(q) \in dirs

\* ------------------------------------------------------------------------
\* Properties of multi_replace
\* ------------------------------------------------------------------------

InSelection(m) == \E k \in 1..Len(non_overlaps) : non_overlaps[k] = m

\* the expansions of the selected matches that start at offset p
RECURSIVE ExpansionsAt(_, _, _, _, _)
ExpansionsAt(s, rules, sel, k, p) ==
    IF k > Len(sel) THEN <<>>
    ELSE (IF sel[k].start = p THEN expand(s, sel[k], rules[sel[k].rule].rep) ELSE <<>>)
         \o ExpansionsAt(s, rules, sel, k + 1, p)

CoveredBy(sel, p) == \E k \in 1..Len(sel) : sel[k].start <= p /\ p < sel[k].end

\* the input read offset by offset: at each offset the replacements of the
\* selected matches starting there, then the input byte unless a selected
\* match covers it
RECURSIVE ReplacedOnce(_, _, _, _)
ReplacedOnce(s, rules, sel, p) ==
    IF p > Len(s) THEN <<>>
    ELSE ExpansionsAt(s, rules, sel, 1, p)
         \o (IF p < Len(s) /\ ~CoveredBy(sel, p) THEN <<s[p + 1]>> ELSE <<>>)
         \o ReplacedOnce(s, rules, sel, p + 1)

\* C1: the output of multi_replace is the input with each selected match
\* replaced once by its expansion and every other input byte copied once, in
\* order.
C1_OnePass ==
    (mr_pc = "done" /\ ~result.err) =>
        result.out = ReplacedOnce(input_bytes, patterns, non_overlaps, 0)

\* the rule set {(a, b), (b, a)} for two different words a and b
IsSwapSet(rules) ==
    /\ Len(rules) = 2
    /\ rules[1].pat.kind = "lit" /\ rules[2].pat.kind = "lit"
    /\ rules[1].pat.w # rules[2].pat.w
    /\ rules[1].rep = rules[2].pat.w
    /\ rules[2].rep = rules[1].pat.w

\* the occurrences of b that overlap no occurrence of a
FreeOccurrences(s, a, b) ==
    LET as == LitIter(a, s, 0)
        bs == LitIter(b, s, 0)
    IN {j \in 1..Len(bs) : \A i \in 1..Len(as) : ~_overlap(as[i], bs[j])}

\* s from offset p on with the occurrences of a turned into b and the free
\* occurrences of b turned into a, each once
RECURSIVE SwapScan(_, _, _, _)
SwapScan(s, a, b, p) ==
    IF p >= Len(s) THEN <<>>
    ELSE LET as == LitIter(a, s, 0)
             bs == LitIter(b, s, 0)
         IN IF \E i \in 1..Len(as) : as[i].start = p
            THEN b \o SwapScan(s, a, b, p + Len(a))
            ELSE IF \E j \in FreeOccurrences(s, a, b) : bs[j].start = p
                 THEN a \o SwapScan(s, a, b, p + Len(b))
                 ELSE <<s[p + 1]>> \o SwapScan(s, a, b, p + 1)

\* C2: for the rule set {(a, b), (b, a)} multi_replace turns every occurrence
\* of a into b and every occurrence of b that overlaps none of a into a, each
\* once and in one pass; all the occurrences are counted as found and the
\* swapped ones as applied ('a b a b' gives 'b a b a', found 4, applied 4).
C2_Swap ==
    (mr_pc = "done" /\ IsSwapSet(patterns)) =>
        LET a == patterns[1].pat.w
            b == patterns[2].pat.w
        IN /\ ~result.err
           /\ result.out = SwapScan(input_bytes, a, b, 0)
           /\ result.found = Len(LitIter(a, input_bytes, 0)) + Len(LitIter(b, input_bytes, 0))
           /\ result.valid = Len(LitIter(a, input_bytes, 0))
                               + Cardinality(FreeOccurrences(input_bytes, a, b))
           /\ (input_bytes = SwapExample /\ a = <<"a">> /\ b = <<"b">>) =>
                  /\ result.out = <<"b", " ", "a", " ", "b", " ", "a">>
                  /\ result.found = 4
                  /\ result.valid = 4

\* C2's case: the swap of 'a' and 'b' has run on 'a b a b'
C2_Witness ==
    /\ mr_pc = "done"
    /\ IsSwapSet(patterns)
    /\ patterns[1].pat.w = <<"a">>
    /\ input_bytes = SwapExample
    /\ result.valid = 4

\* candidate matches i and j come from different rules, i's the earlier, and overlap
Conflict(i, j) ==
    /\ matches[i].rule < matches[j].rule
    /\ _overlap(matches[i], matches[j])

\* C3 as claimed: of two overlapping candidate matches of different rules,
\* the earlier rule's is applied and the later rule's is dropped, whatever
\* the size of the rule set.
C3_EarlierRuleWins ==
    mr_pc = "done" =>
        \A i, j \in 1..Len(matches) :
            Conflict(i, j) => InSelection(matches[i]) /\ ~InSelection(matches[j])

\* the overlap of two byte ranges as the glossary defines it
RangesOverlap(m1, m2) == m1.start < m2.end /\ m2.start < m1.end

\* C3 amended: a candidate match is dropped only in favour of an earlier
\* rule: every dropped candidate overlaps an applied match of a rule listed
\* earlier in the rule set, so no match is ever dropped for a later rule's.
C3_DroppedForEarlierRule ==
    mr_pc = "done" =>
        \A j \in 1..Len(matches) :
            ~InSelection(matches[j]) =>
                \E i \in 1..Len(matches) :
                    /\ matches[i].rule < matches[j].rule
                    /\ RangesOverlap(matches[i], matches[j])
                    /\ InSelection(matches[i])

\* C3's case: in a run of three rules a candidate was dropped whose range
\* also overlaps a later rule's candidate
C3_Witness ==
    /\ mr_pc = "done"
    /\ Len(patterns) = 3
    /\ \E i, j \in 1..Len(matches) :
          /\ Conflict(i, j)
          /\ ~InSelection(matches[i])
          /\ InSelection(matches[j])

\* ------------------------------------------------------------------------
\* Properties of rewrite_files and transform_file
\* ------------------------------------------------------------------------

\* the run of rewrite_files is going on or has ended, and undo_backups has
\* not been called
InRun ==
    pc \in {"start", "next", "mkdirs", "write", "backup", "place", "discard",
            "rn_mkdirs", "rn_move", "tally", "done", "raised"}

\* the run of rewrite_files went through its whole list and returned
RunReturned == idx > Len(paths)

\* the paths and bytes of a file system, modification times left out
Contents(fs) == [q \in DOMAIN fs |-> fs[q].data]

HoldsPreRun(P) == P \in DOMAIN files /\ files[P].data = files0[P].data

BackupHoldsPreRun(P) ==
    /\ (P \o BACKUP_SUFFIX) \in DOMAIN files
    /\ files[P \o BACKUP_SUFFIX].data = files0[P].data

\* how many times the loop of rewrite_files has come to path P so far
TimesBegun(P) ==
    Cardinality({k \in 1..Len(paths) :
                    paths[k] = P /\ (k < idx \/ (k = idx /\ pc # "next"))})

MoveSource == IF pc = "place" THEN TempPath(source_path, dest_path) ELSE source_path

\* C5: a move_file without clobber moves onto a path where nothing exists at
\* the moment of the move and leaves every other file as it is; when the
\* destination is taken the file goes to a numeric-suffixed name of its own.
C5_NoClobber ==
    [][ (pc \in {"place", "rn_move"} /\ pc' = "tally") =>
            /\ ~Exists(files, dirs, placed_path')
            /\ placed_path' \in DOMAIN files'
            /\ files'[placed_path'] = files[MoveSource]
            /\ \A q \in DOMAIN files \ {MoveSource} :
                   q \in DOMAIN files' /\ files'[q] = files[q]
            /\ Exists(files, dirs, dest_path) =>
                   placed_path' # dest_path /\ HasTrailingNum(placed_path') ]_vars

\* C5's case: a move found its destination taken and went to a suffixed name
C5_Witness ==
    /\ pc = "tally"
    /\ placed_path # <<>>
    /\ placed_path # dest_path
    /\ dest_path \in DOMAIN files
    /\ placed_path \in DOMAIN files

\* C6: when a dry run has returned, the files and the directories are what
\* they were before the run.
C6_DryRunLeavesTree ==
    (pc = "done" /\ dry_run) => files = files0 /\ dirs = dirs0

\* the tree held no backup or temp file of an earlier run before the run
CleanTree == \A q \in DOMAIN files0 : ~IsBackupOrTemp(q)

\* C7: after a full run (renames and contents) that returned and an undo
\* with the same rules, the tree holds the paths and bytes it held before
\* the run; stated for trees that held no leftovers of earlier runs.
C7_UndoRoundTrip ==
    (pc = "undone" /\ ~undo_dry_run /\ RunReturned /\ CleanTree
        /\ do_renames /\ do_contents /\ ~dry_run) =>
        Contents(files) = Contents(files0)

\* C8: when transform_file with a transformer has moved its files in a run
\* that is no dry run, the backup path holds the bytes read from the source
\* and the destination holds the transformer's output and nothing more.
C8_BackupAndOutput ==
    (pc = "tally" /\ do_contents /\ ~dry_run
        /\ (dest_path # source_path \/ counts.found > 0)) =>
        /\ OrigPath(source_path, dest_path) \in DOMAIN files
        /\ files[OrigPath(source_path, dest_path)].data = contents
        /\ placed_path \in DOMAIN files
        /\ files[placed_path].data = new_contents

\* C9: when a call of transform_file that opened its temp file has ended, by
\* returning or by raising, no file is at the temp path.
C9_NoTempRemains ==
    (pc \in {"tally", "raised"} /\ temp_opened) =>
        TempPath(source_path, dest_path) \notin DOMAIN files

\* the run ended on an I/O error: a directory that cannot be made, or a
\* source that cannot be read or moved
RaisedIOError ==
    /\ pc = "raised"
    /\ ~temp_opened
    /\ ~(do_renames /\ multi_replace(source_path, patterns).err)

\* C10: an I/O error on one file does not keep the later files of the list
\* from being processed: the run never ends on such an error with another
\* file of its list still to come.
C10_ContinuesAfterError ==
    RaisedIOError =>
        \A k \in (idx + 1)..Len(paths) : paths[k] = source_path

\* ------------------------------------------------------------------------
\* Properties of parse_patterns
\* ------------------------------------------------------------------------

\* a line that is neither blank nor a comment and is not two tab-separated
\* fields
Malformed(line) ==
    /\ strip(line) # <<>>
    /\ ~IsCommentLine(line)
    /\ Len(SplitOn(line, TAB)) # 2

\* a line parse_patterns makes rules of
IsRuleLine(line) ==
    /\ strip(line) # <<>>
    /\ ~IsCommentLine(line)
    /\ Len(SplitOn(line, TAB)) = 2

\* C11: parse_patterns reports an error for every line that is neither blank
\* nor a comment and is not exactly two tab-separated fields: it never returns
\* a rule set for a text that holds such a line.
C11_MalformedReported ==
    pp_pc \in {"done", "used"} =>
        \A k \in 1..Len(patterns_str) : ~Malformed(patterns_str[k])

\* C12: with case-preserving expansion the pair as written is in the rule set
\* and effective: for a text with one rule line, an input equal to the
\* pattern text is rewritten to the replacement exactly as written.
C12_OriginalPairEffective ==
    (pp_pc = "used" /\ mr_pc = "done" /\ preserve_case) =>
        \A k \in 1..Len(patterns_str) :
            LET line == patterns_str[k]
                bits == SplitOn(line, TAB)
            IN (/\ IsRuleLine(line)
                /\ \A j \in 1..Len(patterns_str) : j # k => ~IsRuleLine(patterns_str[j])
                /\ bits[1] # <<>>
                /\ input_bytes = bits[1])
               => /\ \E i \in 1..Len(patterns) :
                        patterns[i] = Rule(Lit(bits[1]), bits[2])
                  /\ ~result.err
                  /\ result.out = bits[2]

\* C14: the rule set parse_patterns returns holds no rule twice, also for a
\* text in which the same rule line appears more than once.
C14_NoDuplicateRules ==
    pp_pc \in {"done", "used"} =>
        \A i, j \in 1..Len(patterns) : i < j => patterns[i] # patterns[j]

\* ------------------------------------------------------------------------
\* Properties of rewrite_files, undo_backups and clean_backups
\* ------------------------------------------------------------------------

\* the walk listed no path twice
NoPathTwice == \A i, j \in 1..Len(paths) : i < j => paths[i] # paths[j]

\* C13: every root that is an existing regular file, a bare file name
\* included, is rewritten in place by a content run that finds a match in it:
\* the run raises nothing, the file holds the replaced content and the path
\* with the backup suffix holds the original content. Stated for trees
\* without leftovers, walks that list no path twice and rules that expand.
C13_FileRootRewritten ==
    (pc \in {"done", "raised"} /\ do_contents /\ ~do_renames /\ ~dry_run
        /\ CleanTree /\ NoPathTwice) =>
        \A k \in 1..Len(root_paths) :
            LET root == root_paths[k]
                r == multi_replace(files0[root].data, patterns)
            IN (root \in DOMAIN files0 /\ ~r.err /\ r.found > 0) =>
                  /\ pc = "done"
                  /\ root \in DOMAIN files /\ files[root].data = r.out
                  /\ BackupHoldsPreRun(root)

\* the stepwise dry run computes what the operator DryRunTally computes
DryRunAgrees ==
    (pc \in {"done", "raised"} /\ dry_run /\ do_contents /\ ~do_renames) =>
        LET dry == DryRunTally(files0, dirs0, root_paths, patterns) IN
        /\ dry.raised <=> pc = "raised"
        /\ tally.matches = dry.matches
        /\ tally.valid_matches = dry.valid_matches

\* C15: for the same tree, roots and rules a dry run and a real run of
\* rewrite_files give the same tally of matches found and of matches
\* applied; stated for content runs that return.
C15_DryRunSameTally ==
    (pc = "done" /\ ~dry_run /\ do_contents /\ ~do_renames) =>
        LET dry == DryRunTally(files0, dirs0, root_paths, patterns) IN
        ~dry.raised =>
            /\ tally.matches = dry.matches
            /\ tally.valid_matches = dry.valid_matches

\* the backup the loop of undo_backups looks at, the path it restores to and
\* the path the rules predict for it
ThisBackup == backup_files[undo_idx]
ThisPredicted == multi_replace(OriginalOf(ThisBackup), patterns).out

\* an iteration of the loop of undo_backups that ran to its end
UndoIteration == pc = "undo" /\ pc' = "undo" /\ undo_idx' = undo_idx + 1

\* the predicted path is missing, or the backup is strictly newer than it
MissingOrNewer ==
    \/ ThisPredicted \notin DOMAIN files /\ ThisPredicted \notin dirs
    \/ /\ ThisPredicted \in DOMAIN files
       /\ files[ThisBackup].mtime > files[ThisPredicted].mtime

\* C16: undo_backups skips a backup (counts it as skipped and changes no
\* file) exactly when the predicted path does not exist or the backup's
\* modification time is strictly newer than the predicted path's; with equal
\* modification times the backup is restored.
C16_SkipExactlyWhen ==
    [][UndoIteration =>
          IF MissingOrNewer
          THEN skipped' = skipped + 1 /\ restored' = restored /\ files' = files
          ELSE restored' = restored + 1 /\ skipped' = skipped]_vars

\* the first backup of the list, newer than its predicted path, has been
\* skipped
C16_Witness ==
    /\ pc = "undo" /\ undo_idx = 2 /\ skipped = 1
    /\ LET b == backup_files[1]
           y == multi_replace(OriginalOf(b), patterns).out
       IN b \in DOMAIN files /\ y \in DOMAIN files /\ files[b].mtime > files[y].mtime

\* a backup as old as its predicted path has been restored
C16_EqualRestored ==
    /\ pc = "undo" /\ undo_idx = 2 /\ restored = 1
    /\ LET b == backup_files[1]
           y == multi_replace(OriginalOf(b), patterns).out
       IN b \in DOMAIN files1 /\ y \in DOMAIN files1 /\ files1[b].mtime = files1[y].mtime

\* C17: for every backup a non-dry undo_backups does not skip, after the
\* undo the original path holds the backup's content, the backup file no
\* longer exists, and the predicted path, if it differs from the original
\* path, no longer exists. Stated for an undo that skipped nothing, after a
\* run on a tree without leftovers.
C17_RestoredAfterUndo ==
    (pc = "undone" /\ ~undo_dry_run /\ skipped = 0 /\ CleanTree /\ ~dry_run) =>
        \A k \in 1..Len(backup_files) :
            LET b == backup_files[k]
                X == OriginalOf(b)
                Y == multi_replace(X, patterns).out
            IN /\ X \in DOMAIN files /\ files[X].data = files1[b].data
               /\ b \notin DOMAIN files
               /\ Y # X => Y \notin DOMAIN files

UndoStepwiseAgrees ==
    pc \in {"undone", "raised_undo"} =>
        LET u == undo_backups(files1, dirs, root_paths, patterns, undo_dry_run) IN
        /\ u.raised <=> pc = "raised_undo"
        /\ u.restored = restored /\ u.skipped = skipped /\ u.files = files

\* find_backup_files listed no backup twice
NoBackupTwice ==
    \A i, j \in 1..Len(backup_files) : i < j => backup_files[i] # backup_files[j]

\* C19: the (restored, skipped) counts a dry-run undo_backups returns are
\* the counts a real undo_backups returns on the same tree with the same
\* rules, also when several backups predict the same path. Stated for
\* roots under which no backup is listed twice.
C19_DryUndoSameCounts ==
    (pc = "undone" /\ undo_dry_run /\ NoBackupTwice) =>
        LET real == undo_backups(files1, dirs, root_paths, patterns, FALSE) IN
        ~real.raised => (restored = real.restored /\ skipped = real.skipped)

\* the paths of a list
PathsOf(ps) == {ps[k] : k \in 1..Len(ps)}

\* C20: clean_backups removes exactly the files find_backup_files returns
\* (none of them in a dry run), leaves every other file as it is, and returns
\* the number of backup files found: it never raises, and when it returns
\* the files are those of before without the listed backups.
C20_CleanRemovesBackups ==
    /\ pc # "raised_clean"
    /\ pc = "cleaned" =>
          /\ removed = Len(find_backup_files(files1, dirs, root_paths))
          /\ files = IF clean_dry_run THEN files1
                     ELSE [q \in DOMAIN files1 \ PathsOf(find_backup_files(files1, dirs, root_paths))
                              |-> files1[q]]

\* ------------------------------------------------------------------------
\* Properties of walk_files
\* ------------------------------------------------------------------------

\* the skips of a walk: a root and a file with the backup or the temp suffix
\* that is the root or lies under it
SuffixSkips ==
    {<<k, q>> \in (1..Len(root_paths)) \X DOMAIN files :
        /\ EndsWith(q, BACKUP_SUFFIX) \/ EndsWith(q, TEMP_SUFFIX)
        /\ q = root_paths[k] \/ StartsWith(q, root_paths[k] \o <<"/">>)}

\* C21: walk_files never returns a path that ends in the backup suffix or
\* the temp suffix, for files met under a directory and for roots named as
\* files, whatever the include pattern, and its second result is the number
\* of files it skipped for carrying one of the suffixes (a file met under
\* two roots is skipped once for each).
C21_SuffixesNeverWalked ==
    pc = "next" =>
        /\ \A k \in 1..Len(paths) :
              ~EndsWith(paths[k], BACKUP_SUFFIX) /\ ~EndsWith(paths[k], TEMP_SUFFIX)
        /\ skipped_backup_count = Cardinality(SuffixSkips)

\* a walk with an include pattern other than ".*" returned a file, and skipped
\* a backup that the pattern does not match, once met under the directory and
\* once named as a root
C21_Witness ==
    /\ pc = "next" /\ include_pat = Lit(<<"b">>)
    /\ Len(paths) > 0
    /\ \E k \in 1..Len(root_paths) :
          /\ root_paths[k] \in DOMAIN files
          /\ EndsWith(root_paths[k], BACKUP_SUFFIX)
          /\ ~ReMatch(include_pat, basename(root_paths[k]))
    /\ \E k \in 1..Len(root_paths) : root_paths[k] = <<"d">>
    /\ skipped_backup_count = 2

\* ------------------------------------------------------------------------
\* Properties of transform_file
\* ------------------------------------------------------------------------

\* a step of transform_file that moves a file
MoveStep == pc \in {"backup", "place", "rn_move"} /\ files' # files

\* the paths a step has put a file at
Arrived == {q \in DOMAIN files' : q \notin DOMAIN files \/ files'[q] # files[q]}

\* C22: before transform_file moves a file to a destination, in the rewrite
\* case and in the rename-only case, the destination's parent directory
\* exists (made by make_parent_dirs where it was missing): no file is moved
\* to a path whose parent directory does not exist.
C22_ParentsBeforeMove ==
    [][MoveStep => \A q \in Arrived : dirname(q) = <<>> \/ dirname(q) \in dirs]_vars

\* a rewrite has moved its output into a directory that did not exist
\* before the run
C22_Witness ==
    /\ pc = "tally" /\ do_contents /\ ~dry_run
    /\ placed_path \in DOMAIN files
    /\ dirname(placed_path) \notin dirs0
    /\ dirname(placed_path) \in dirs

\* a rename-only call has moved its file into a directory that did not exist
\* before the run
C22_RenameOnlyReached ==
    /\ pc = "tally" /\ ~do_contents /\ ~dry_run
    /\ placed_path \in DOMAIN files
    /\ dirname(placed_path) \notin dirs0
    /\ dirname(placed_path) \in dirs

\* ------------------------------------------------------------------------
\* Further properties of multi_replace
\* ------------------------------------------------------------------------

\* the pattern has no match in s: a literal, not empty, that occurs nowhere
NoOccurrence(pat, s) ==
    /\ pat.kind = "lit" /\ pat.w # <<>>
    /\ \A i \in 0..(Len(s) - Len(pat.w)) : SubSeq(s, i + 1, i + Len(pat.w)) # pat.w

\* the rule set with one more rule after its first pos rules
WithRuleAt(rules, pos, rule) ==
    SubSeq(rules, 1, pos) \o <<rule>> \o SubSeq(rules, pos + 1, Len(rules))

\* C23: for every input, rule set and rule whose pattern has no match in the
\* input, multi_replace with the rule added at any position returns the same
\* output bytes and the same found and applied counts as multi_replace with
\* the rule set alone.
C23_UnmatchedRuleChangesNothing ==
    mr_pc = "done" =>
        \A rule \in RuleUniverse : \A pos \in 0..Len(patterns) :
            NoOccurrence(rule.pat, input_bytes) =>
                multi_replace(input_bytes, WithRuleAt(patterns, pos, rule)) = result

\* multi_replace has replaced something with a rule set of two rules, and a
\* rule of the universe has no match in the input
C23_Witness ==
    /\ mr_pc = "done" /\ Len(patterns) = 2 /\ result.valid > 0 /\ ~result.err
    /\ result.out # input_bytes
    /\ \E rule \in RuleUniverse : NoOccurrence(rule.pat, input_bytes)

\* C24: for every list of candidates the collector produces, the selection
\* of _sort_drop_overlaps is ordered by start offset and no two of its
\* matches overlap (s1 < e2 and s2 < e1).
C24_SelectionSortedDisjoint ==
    mr_pc = "done" =>
        /\ \A i, j \in 1..Len(non_overlaps) :
              i < j => non_overlaps[i].start <= non_overlaps[j].start
        /\ \A i, j \in 1..Len(non_overlaps) :
              i # j => ~RangesOverlap(non_overlaps[i], non_overlaps[j])

\* C25: every candidate match the collector adds in multi_replace, for the
\* rules the pattern loader compiled, satisfies 0 <= start < end <= input
\* length, and so does every match of the selection.
C25_NoZeroLengthMatch ==
    (pp_pc = "used" /\ mr_pc \in {"resolve", "done"}) =>
        /\ \A i \in 1..Len(matches) :
              /\ 0 <= matches[i].start
              /\ matches[i].start < matches[i].end
              /\ matches[i].end <= Len(input_bytes)
        /\ \A i \in 1..Len(non_overlaps) : non_overlaps[i].start < non_overlaps[i].end

\* the backup path of the file transform_file is working on
ThisBackupPath == source_path \o BACKUP_SUFFIX

\* transform_file is between its first and its last statement
InTransformFile ==
    pc \in {"mkdirs", "write", "backup", "place", "discard", "rn_mkdirs", "rn_move"}

\* the step creates the backup file or changes it
BackupWritten ==
    /\ ThisBackupPath \in DOMAIN files'
    /\ ThisBackupPath \notin DOMAIN files \/ files'[ThisBackupPath] # files[ThisBackupPath]

\* a transformer is given, the run is no dry run, and the destination differs
\* from the source or a candidate match was found
BackupDue ==
    do_contents /\ ~dry_run /\ (dest_path # source_path \/ counts.found > 0)

\* C26: transform_file writes the backup file source_path + backup_suffix if
\* and only if a transformer is given, the run is no dry run, and either the
\* destination differs from the source or a candidate match was found: when
\* the call ends with a backup due the backup holds the bytes read from the
\* source, and no step of a call creates or changes the backup otherwise.
C26_BackupIffDue ==
    /\ []((pc = "tally" /\ BackupDue) =>
             (ThisBackupPath \in DOMAIN files /\ files[ThisBackupPath].data = contents))
    /\ [][(InTransformFile /\ BackupWritten) => BackupDue]_vars

\* a rename with a transformer that found nothing has written the backup
C26_Witness ==
    /\ pc = "tally" /\ BackupDue /\ counts.found = 0
    /\ ThisBackupPath \in DOMAIN files /\ ThisBackupPath \notin DOMAIN files0

\* transform_file has ended without a backup: in a dry run that found a match
C26_DryRunNoBackup ==
    /\ pc = "tally" /\ do_contents /\ dry_run /\ counts.found > 0
    /\ ThisBackupPath \notin DOMAIN files

\* ------------------------------------------------------------------------
\* Properties of _split_name
\* ------------------------------------------------------------------------

\* the length of the first k words together
RECURSIVE LenOfFirst(_, _)
LenOfFirst(words, k) == IF k = 0 THEN 0 ELSE LenOfFirst(words, k - 1) + Len(words[k])

\* the offsets (0-based) in the name at which the words after the first begin
LaterWordStarts(words) == {LenOfFirst(words, k) : k \in 1..(Len(words) - 1)}

\* the offsets at which the name has an uppercase character, other than the
\* first character, whose previous or next character is lowercase
CapitalBreaks(n) ==
    {i \in 1..(Len(n) - 1) :
        /\ IsUpper(n[i + 1])
        /\ IsLower(n[i]) \/ (i + 2 <= Len(n) /\ IsLower(n[i + 2]))}

\* C27: for a name without underscores _split_name returns the empty
\* separator and begins a new word exactly at each uppercase character,
\* other than the first, whose previous or next character is lowercase; for
\* a name with an underscore it returns '_' and the parts between the
\* underscores; in both cases the words joined with the separator give the
\* name.
C27_SplitName ==
    split_pc = "returned" =>
        /\ Join(split.words, split.sep) = name
        /\ IF \E i \in 1..Len(name) : name[i] = "_"
           THEN /\ split.sep = <<"_">>
                /\ \A k \in 1..Len(split.words) :
                      \A i \in 1..Len(split.words[k]) : split.words[k][i] # "_"
           ELSE /\ split.sep = <<>>
                /\ \A k \in 1..Len(split.words) : split.words[k] # <<>>
                /\ LaterWordStarts(split.words) = CapitalBreaks(name)

\* a run of capitals before a lowercase character was split before its last
\* capital
C27_Witness ==
    /\ split_pc = "returned"
    /\ name = <<"A", "B", "a">>
    /\ split.words = << <<"A">>, <<"B", "a">> >>

\* a name with underscores was split at them
C27_UnderscoreReached ==
    /\ split_pc = "returned"
    /\ name = <<"a", "_", "B">>
    /\ split = [sep |-> <<"_">>, words |-> << <<"a">>, <<"B">> >>]

\* ------------------------------------------------------------------------
\* Further properties of rewrite_files and undo_backups
\* ------------------------------------------------------------------------

\* C28: every file is processed at most once in a run: the list of
\* walk_files holds no path twice, also for roots that repeat or that
\* contain one another.
C28_NoPathWalkedTwice ==
    pc # "start" => NoPathTwice

\* the file was in the tree before the run and the run left it as it was
UntouchedByRun(q) ==
    q \in DOMAIN files0 /\ q \in DOMAIN files1 /\ files1[q] = files0[q]

\* C29: undo_backups never removes or overwrites a file that was in the tree
\* before the rewrite run whose backups it restores: a file the run did not
\* write is, during and after the undo, as it was. Stated for runs that
\* returned, on trees without leftovers of earlier runs and with roots that
\* list no path twice.
C29_UndoKeepsEarlierFiles ==
    (pc \in {"undo", "undone", "raised_undo"} /\ CleanTree /\ RunReturned /\ NoPathTwice) =>
        \A q \in DOMAIN files0 :
            UntouchedByRun(q) => (q \in DOMAIN files /\ files[q] = files0[q])

\* ------------------------------------------------------------------------
\* Rule order in _sort_drop_overlaps
\* ------------------------------------------------------------------------

\* the candidate the loop of _sort_drop_overlaps looks at in this step
Considered == matches[next_match]

\* the step is one iteration of the loop of _sort_drop_overlaps
ConsidersOne == mr_pc = "resolve" /\ next_match' = next_match + 1

\* the iteration put its candidate into the selection
Accepts == Len(non_overlaps') = Len(non_overlaps) + 1

\* the candidate overlaps no match of the selection built so far
FreeOfAccepted ==
    \A i \in 1..Len(non_overlaps) : ~RangesOverlap(non_overlaps[i], Considered)

\* every match of the selection is in the selection after the step
KeepsAccepted ==
    \A i \in 1..Len(non_overlaps) :
        \E j \in 1..Len(non_overlaps') : non_overlaps'[j] = non_overlaps[i]

\* C30: every candidate match of the first rule is in the selection when
\* multi_replace applies it, whatever the other rules match; in every
\* iteration of _sort_drop_overlaps the candidate is accepted if and only if
\* it overlaps no match accepted before it, and no iteration takes an
\* accepted match out of the selection.
C30_FirstRuleKeptLaterIffFree ==
    /\ [](mr_pc = "done" =>
            \A i \in 1..Len(matches) : matches[i].rule = 1 => InSelection(matches[i]))
    /\ [][ConsidersOne => (Accepts <=> FreeOfAccepted) /\ KeepsAccepted]_vars

====
